---- MODULE Spec2Model ----
(***************************************************************************)
(* Job coordination core of the ad analyzer backend: the job ledger        *)
(* (table jobs), the producer (createAdAnalysisJob /                       *)
(* createEmotionAnalysisJob behind the analyze routes), the cancel route,  *)
(* and the progress relay (the Redis pmessage handler and handleJobEvent). *)
(*                                                                         *)
(* Optional values (a JSON field that may be missing, an SQL column that   *)
(* may be NULL) are sequences of length at most one: << >> is              *)
(* undefined / NULL, <<v>> is the value v.                                 *)
(***************************************************************************)
EXTENDS Integers, Sequences, FiniteSets, TLC

\* ------------------------------------------------------------------ bounds
MaxJobs == 2          \* job ids the producer may allocate
NumAds == 1           \* rows of table ads
NumReactions == 1     \* rows of table reaction_videos
MaxRequests == 2      \* analyze requests issued
MaxEvents == 2        \* messages received on the event channel
MaxInFlight == 2      \* handleJobEvent invocations running at once
MaxCancels == 1       \* cancel requests issued
NumSockets == 2       \* socket.io connections
NumObservers == 2     \* useJobProgress hooks mounted on pages of the application
MaxOutbox == 2        \* messages a client has emitted that the hub has not handled

JobIds == 1..MaxJobs
AdIds == 1..NumAds
ReactionIds == 1..NumReactions
ReqIds == 1..MaxRequests
Sockets == 1..NumSockets
ObsIds == 1..NumObservers

NULL == << >>
Some(v) == <<v>>

\* ------------------------------------------------------- the event inputs
\* the (progress, step) pairs of the progress events: in range, lower than
\* an earlier one, missing, below 0 and above 100
ProgressInputs ==
  { <<Some(40), Some("detecting objects")>>, <<Some(70), Some("scoring")>>,
    <<NULL, NULL>>, <<Some(-10), Some("scoring")>>,
    <<Some(150), Some("detecting objects")>> }
\* the (error, stack) pairs of the error events
ErrorInputs ==
  { <<Some("decode failed"), NULL>>, <<Some("timeout"), Some("trace")>> }

VARIABLES
  jobs,             \* table jobs: job_id -> row, for the rows that exist
  ads,              \* table ads: id -> [status, error_message]
  reaction_videos,  \* table reaction_videos: id -> [status, error_message]
  queue,            \* the Redis lists rq:queue:ad_analysis / rq:queue:emotion_analysis
  claimed,          \* descriptors taken off the queue by a worker
  reqs,             \* analyze requests: position in the route / createJob
  handlers,         \* handleJobEvent invocations that have not finished
  nEvents,          \* number of messages received on the event channel
  cancelPending,    \* cancel requests that passed the status check
  nCancels,         \* number of cancel requests issued
  now,              \* CURRENT_TIMESTAMP of the next statement on table jobs
  rooms,            \* socket.io rooms: socket -> job ids it has joined
  received,         \* events delivered to each socket, in order
  connectedClients, \* SocketService.connectedClients: socket -> subscriptions
  toServer,         \* per socket: messages the client emitted, not yet handled
  cursor,           \* per socket: how many received events the client has dispatched
  observers         \* useJobProgress hooks: job id, state, registered handlers

vars == <<jobs, ads, reaction_videos, queue, claimed, reqs, handlers, nEvents,
          cancelPending, nCancels, now, rooms, received, connectedClients,
          toServer, cursor, observers>>

ledgerVars == <<jobs, ads, reaction_videos>>
producerVars == <<queue, reqs>>
relayVars == <<handlers, nEvents>>
cancelVars == <<cancelPending, nCancels>>
clientVars == <<toServer, cursor, observers>>
hubVars == <<rooms, received, connectedClients, clientVars>>

\* ------------------------------------------------------------- the schema
JobStatuses == {"queued", "processing", "completed", "failed", "cancelled"}
EntityStatuses == {"uploaded", "queued", "processing", "completed", "failed"}
TerminalStatuses == {"completed", "failed", "cancelled"}

\* CHECK (progress BETWEEN 0 AND 100)
ProgressCheck(p) == p >= 0 /\ p <= 100

\* a row of table jobs as INSERTed by createJob: the columns the statement
\* does not name take their defaults
NewJobRow(jobType, refType, refId, status) ==
  [job_type |-> jobType, reference_type |-> refType, reference_id |-> refId,
   status |-> status, progress |-> 0, current_step |-> NULL,
   error_message |-> NULL, error_stack |-> NULL,
   started_at |-> NULL, completed_at |-> NULL]

\* COALESCE(a, b)
COALESCE(a, b) == IF a # NULL THEN a ELSE b

\* data.progress || 0
ProgressOrZero(p) == IF p = NULL \/ p[1] = 0 THEN 0 ELSE p[1]

\* data.step || ''   and   data.stack || ''
TextOrEmpty(s) == IF s = NULL \/ s[1] = "" THEN "" ELSE s[1]

\* ------------------------------------------------------------ the queries
\* updateJobProgress with "started_at = CURRENT_TIMESTAMP"
updateJobProgress_Restarts(row, p, step, t) ==
  [row EXCEPT !.progress = p, !.current_step = Some(step),
              !.status = "processing", !.started_at = Some(t)]

\* updateJobProgress without "status = 'processing'"
updateJobProgress_KeepsStatus(row, p, step, t) ==
  [row EXCEPT !.progress = p, !.current_step = Some(step),
              !.started_at = COALESCE(row.started_at, Some(t))]

\* queries.updateJobProgress, applied to the row
updateJobProgress(row, p, step, t) ==
  [row EXCEPT !.progress = p, !.current_step = Some(step),
              !.status = "processing",
              !.started_at = COALESCE(row.started_at, Some(t))]

\* completeJob without "progress = 100"
completeJob_KeepsProgress(row, t) ==
  [row EXCEPT !.status = "completed", !.completed_at = Some(t)]

\* queries.completeJob, applied to the row
completeJob(row, t) ==
  [row EXCEPT !.status = "completed", !.progress = 100,
              !.completed_at = Some(t)]

\* failJob with $2 and $3 exchanged: the stack lands in error_message
failJob_SwapsTexts(row, err, stack, t) ==
  [row EXCEPT !.status = "failed", !.error_message = Some(stack),
              !.error_stack = err, !.completed_at = Some(t)]

\* queries.failJob, applied to the row
failJob(row, err, stack, t) ==
  [row EXCEPT !.status = "failed", !.error_message = err,
              !.error_stack = Some(stack), !.completed_at = Some(t)]

\* UPDATE jobs SET status = 'cancelled' WHERE job_id = $1
cancelJob(row) == [row EXCEPT !.status = "cancelled"]

\* queries.updateAdStatus / queries.updateReactionStatus: WHERE id = $1
updateEntityStatus(table, id, status, err) ==
  IF id \in DOMAIN table
    THEN [table EXCEPT ![id] = [status |-> status, error_message |-> err]]
    ELSE table

\* UPDATE jobs ... WHERE job_id = $1: no row, no change
UpdateJob(table, j, newRow) ==
  IF j \in DOMAIN table THEN [table EXCEPT ![j] = newRow] ELSE table

\* useJobProgress(null) after its first effect: useState('idle'), useState(0),
\* no subscription; `listening` is the job id the hook's socket handlers were
\* registered for by subscribeToJob, 0 when none are registered
NewObserver ==
  [mounted |-> TRUE, jobId |-> 0, status |-> "idle", progress |-> 0, listening |-> 0]

\* ------------------------------------------------------------------- Init
Init ==
  /\ jobs = << >>
  /\ ads = [a \in AdIds |-> [status |-> "uploaded", error_message |-> NULL]]
  /\ reaction_videos =
       [v \in ReactionIds |-> [status |-> "uploaded", error_message |-> NULL]]
  /\ queue = [ad_analysis |-> << >>, emotion_analysis |-> << >>]
  /\ claimed = {}
  /\ reqs = [r \in ReqIds |-> [pc |-> "idle", kind |-> "ad", id |-> 0, jobId |-> 0]]
  /\ handlers = << >>
  /\ nEvents = 0
  /\ cancelPending = {}
  /\ nCancels = 0
  /\ now = 1
  /\ rooms = [s \in Sockets |-> {}]
  /\ received = [s \in Sockets |-> << >>]
  /\ connectedClients = << >>
  /\ toServer = [s \in Sockets |-> << >>]
  /\ cursor = [s \in Sockets |-> 0]
  /\ observers = [o \in ObsIds |-> NewObserver]

\* ---------------------------------------------------------- the producer
EntityTable(kind) == IF kind = "ad" THEN ads ELSE reaction_videos
EntityIds(kind) == IF kind = "ad" THEN AdIds ELSE ReactionIds
JobTypeOf(kind) == IF kind = "ad" THEN "ad_analysis" ELSE "emotion_analysis"
QueueOf(kind) == IF kind = "ad" THEN "ad_analysis" ELSE "emotion_analysis"

\* uuidv4(): an id no job has had
uuidv4 == CHOOSE j \in JobIds \ DOMAIN jobs :
            \A k \in JobIds \ DOMAIN jobs : j <= k

\* a request that has been answered: only the response is kept
Answered(response, jobId) == [pc |-> response, kind |-> "ad", id |-> 0, jobId |-> jobId]

\* router.post('/:id/analyze') up to the call of createJob: look the entity
\* up, 404 if it does not exist, 400 if it is queued or processing
AnalyzeRoute(r, kind, id) ==
  /\ reqs[r].pc = "idle"
  /\ \A q \in ReqIds : q < r => reqs[q].pc # "idle"
  /\ reqs' = [reqs EXCEPT ![r] =
       IF id \notin DOMAIN EntityTable(kind) THEN Answered("not_found", 0)
       ELSE IF EntityTable(kind)[id].status \in {"processing", "queued"}
         THEN Answered("rejected", 0)
       ELSE [pc |-> "insert", kind |-> kind, id |-> id, jobId |-> 0]]
  /\ UNCHANGED <<ledgerVars, queue, claimed, relayVars, cancelVars, now, hubVars>>

\* a createJob that allocates the job id and goes on without the INSERT
CreateJobInsert_NoRow(r) ==
  /\ reqs[r].pc = "insert"
  /\ JobIds \ DOMAIN jobs # {}
  /\ reqs' = [reqs EXCEPT ![r].pc = "entity", ![r].jobId = uuidv4]
  /\ UNCHANGED <<ledgerVars, queue, claimed, relayVars, cancelVars, now, hubVars>>

\* createJob: allocate the job id and INSERT the ledger row
CreateJobInsert(r) ==
  /\ reqs[r].pc = "insert"
  /\ JobIds \ DOMAIN jobs # {}
  /\ LET jobId == uuidv4
         kind == reqs[r].kind
     IN /\ jobs' = jobs @@ (jobId :> NewJobRow(JobTypeOf(kind), kind, reqs[r].id, "queued"))
        /\ reqs' = [reqs EXCEPT ![r].pc = "entity", ![r].jobId = jobId]
  /\ UNCHANGED <<ads, reaction_videos, queue, claimed, relayVars, cancelVars, now, hubVars>>

\* createJob: set the entity's status to queued
CreateJobEntity(r) ==
  /\ reqs[r].pc = "entity"
  /\ IF reqs[r].kind = "ad"
       THEN /\ ads' = updateEntityStatus(ads, reqs[r].id, "queued", NULL)
            /\ UNCHANGED reaction_videos
       ELSE /\ reaction_videos' =
                 updateEntityStatus(reaction_videos, reqs[r].id, "queued", NULL)
            /\ UNCHANGED ads
  /\ reqs' = [reqs EXCEPT ![r].pc = "push"]
  /\ UNCHANGED <<jobs, queue, claimed, relayVars, cancelVars, now, hubVars>>

\* the descriptor createJob pushes
Descriptor(r) == [job_id |-> reqs[r].jobId, kind |-> reqs[r].kind, ref_id |-> reqs[r].id]

\* lpush that is retried after it already took effect
lpush_Twice(list, d) == <<d, d>> \o list

\* redisClient.lpush(key, value): the new element becomes the head
lpush(list, d) == <<d>> \o list

\* createJob: lpush succeeds, the job id is returned and the route answers
CreateJobPush(r) ==
  /\ reqs[r].pc = "push"
  /\ queue' = [queue EXCEPT ![QueueOf(reqs[r].kind)] = lpush(@, Descriptor(r))]
  /\ reqs' = [reqs EXCEPT ![r] = Answered("done", reqs[r].jobId)]
  /\ UNCHANGED <<ledgerVars, claimed, relayVars, cancelVars, now, hubVars>>

\* a failure path that marks the row failed before it throws
CreateJobPushFail_MarksFailed(r) ==
  /\ reqs[r].pc = "push"
  /\ reqs' = [reqs EXCEPT ![r] = Answered("error", 0)]
  /\ jobs' = [jobs EXCEPT ![reqs[r].jobId].status = "failed"]
  /\ UNCHANGED <<ads, reaction_videos, queue, claimed, relayVars, cancelVars, now, hubVars>>

\* createJob: lpush rejects, createJob throws, the route passes the error on
CreateJobPushFail(r) ==
  /\ reqs[r].pc = "push"
  /\ reqs' = [reqs EXCEPT ![r] = Answered("error", 0)]
  /\ UNCHANGED <<ledgerVars, queue, claimed, relayVars, cancelVars, now, hubVars>>

\* ------------------------------------------------------------ the worker
\* a worker takes a descriptor off one end of a queue
WorkerClaim(q) ==
  /\ queue[q] # << >>
  /\ \E fromHead \in BOOLEAN :
       LET n == Len(queue[q])
           d == IF fromHead THEN queue[q][1] ELSE queue[q][n]
           rest == IF fromHead THEN SubSeq(queue[q], 2, n) ELSE SubSeq(queue[q], 1, n - 1)
       IN /\ claimed' = claimed \cup {d}
          /\ queue' = [queue EXCEPT ![q] = rest]
  /\ UNCHANGED <<ledgerVars, reqs, relayVars, cancelVars, now, hubVars>>

\* a message on the event channel: the event type and job id of the channel
\* name and the fields of the parsed body
Event(type, jobId, progress, step, error, stack, refType, refId) ==
  [type |-> type, jobId |-> jobId, progress |-> progress, step |-> step,
   error |-> error, stack |-> stack,
   referenceType |-> refType, referenceId |-> refId]

\* the messages a worker that holds descriptor d can publish
WorkerEvents(d) ==
  LET refs == {NULL, Some(d.kind)}
  IN {Event("progress", d.job_id, p[1], p[2], NULL, NULL, NULL, d.ref_id) :
         p \in ProgressInputs}
     \cup {Event("completed", d.job_id, NULL, NULL, NULL, NULL, rt, d.ref_id) :
              rt \in refs}
     \cup {Event("error", d.job_id, NULL, NULL, e[1], e[2], rt, d.ref_id) :
              e \in ErrorInputs, rt \in refs}
     \cup {Event("frame", d.job_id, NULL, NULL, NULL, NULL, NULL, d.ref_id)}

\* ------------------------------------------------------------- the relay
\* what the hub sends a socket for event ev
Sent(ev) == [event |-> ev.type, jobId |-> ev.jobId, progress |-> ev.progress]

\* io.emit in place of io.to(room).emit: every socket is sent the event
Broadcast_ToAll(ev) == [s \in Sockets |-> Append(received[s], Sent(ev))]

\* an emit that puts the event in front of the ones sent before
Broadcast_InFront(ev) ==
  [s \in Sockets |->
     IF ev.jobId \in rooms[s] THEN <<Sent(ev)>> \o received[s] ELSE received[s]]

\* io.to(`job:${jobId}`).emit(`job:${eventType}`, ...)
Broadcast(ev) ==
  [s \in Sockets |->
     IF ev.jobId \in rooms[s]
       THEN Append(received[s], Sent(ev))
       ELSE received[s]]

\* redisSubscriber.on('pmessage'): a message that parses is broadcast to the
\* job's room and handleJobEvent is started, which runs up to its first query
RelayMessage(ev) ==
  /\ nEvents < MaxEvents
  /\ Len(handlers) < MaxInFlight
  /\ nEvents' = nEvents + 1
  /\ received' = Broadcast(ev)
  /\ handlers' = IF ev.type \in {"progress", "completed", "error"}
                   THEN Append(handlers, [ev |-> ev, pc |-> "job"])
                   ELSE handlers
  /\ UNCHANGED <<ledgerVars, producerVars, claimed, cancelVars, now, rooms,
                 connectedClients, clientVars>>

\* a handler that emits to the room before it parses the body: the sockets
\* in a room are sent an event without data
RelayMalformed_EmitsFirst ==
  /\ nEvents < MaxEvents
  /\ nEvents' = nEvents + 1
  /\ received' = [s \in Sockets |->
       IF rooms[s] # {}
         THEN Append(received[s], [event |-> "progress",
                                   jobId |-> CHOOSE j \in rooms[s] : TRUE,
                                   progress |-> NULL])
         ELSE received[s]]
  /\ UNCHANGED <<ledgerVars, producerVars, claimed, handlers, cancelVars, now,
                 rooms, connectedClients, clientVars>>

\* redisSubscriber.on('pmessage'): JSON.parse throws, the error is logged
RelayMalformed ==
  /\ nEvents < MaxEvents
  /\ nEvents' = nEvents + 1
  /\ UNCHANGED <<ledgerVars, producerVars, claimed, handlers, cancelVars, now, hubVars>>

RemoveAt(s, i) == SubSeq(s, 1, i - 1) \o SubSeq(s, i + 1, Len(s))

\* the row the first query of handleJobEvent writes for event ev
EventRow(row, ev, t) ==
  CASE ev.type = "progress" ->
         updateJobProgress(row, ProgressOrZero(ev.progress), TextOrEmpty(ev.step), t)
    [] ev.type = "completed" -> completeJob(row, t)
    [] ev.type = "error" -> failJob(row, ev.error, TextOrEmpty(ev.stack), t)

\* the CHECK constraints of table jobs on the columns the queries write
RowCheck(row) == ProgressCheck(row.progress) /\ row.status \in JobStatuses

\* the first query of handleJobEvent throws: the new row violates a CHECK
JobQueryThrows(table, ev, t) ==
  /\ ev.jobId \in DOMAIN table
  /\ ~RowCheck(EventRow(table[ev.jobId], ev, t))

\* the ledger after the first query of handleJobEvent for event ev; a
\* statement that throws leaves the table as it was
JobQuery(table, ev, t) ==
  IF ev.jobId \notin DOMAIN table \/ JobQueryThrows(table, ev, t)
    THEN table
    ELSE UpdateJob(table, ev.jobId, EventRow(table[ev.jobId], ev, t))

\* db.query: the query an invocation of handleJobEvent has issued takes
\* effect at some later moment, and the queries of different invocations
\* take effect in either order
QueryPending(i) == i \in 1..Len(handlers)

\* handleJobEvent: the query on table jobs; progress events end here, and so
\* do completed / error events that name no reference and events whose query
\* throws (the catch logs the error). Every statement sees a later
\* CURRENT_TIMESTAMP than the one before it.
HandleJobEvent(i) ==
  /\ QueryPending(i)
  /\ handlers[i].pc = "job"
  /\ LET ev == handlers[i].ev
     IN /\ jobs' = JobQuery(jobs, ev, now)
        /\ handlers' =
             IF /\ ev.type \in {"completed", "error"}
                /\ ev.referenceType # NULL
                /\ ~JobQueryThrows(jobs, ev, now)
               THEN [handlers EXCEPT ![i].pc = "entity"]
               ELSE RemoveAt(handlers, i)
  /\ now' = now + 1
  /\ UNCHANGED <<ads, reaction_videos, producerVars, claimed, nEvents, cancelVars, hubVars>>

\* handleJobEvent: the query on the referenced entity
HandleEntityEvent(i) ==
  /\ QueryPending(i)
  /\ handlers[i].pc = "entity"
  /\ LET ev == handlers[i].ev
         status == IF ev.type = "completed" THEN "completed" ELSE "failed"
         err == IF ev.type = "completed" THEN NULL ELSE ev.error
     IN IF ev.referenceType = Some("ad")
          THEN /\ ads' = updateEntityStatus(ads, ev.referenceId, status, err)
               /\ UNCHANGED reaction_videos
          ELSE IF ev.referenceType = Some("reaction_video")
          THEN /\ reaction_videos' =
                    updateEntityStatus(reaction_videos, ev.referenceId, status, err)
               /\ UNCHANGED ads
          ELSE UNCHANGED <<ads, reaction_videos>>
  /\ handlers' = RemoveAt(handlers, i)
  /\ UNCHANGED <<jobs, producerVars, claimed, nEvents, cancelVars, now, hubVars>>

\* a query on table jobs that reports a failure after it changed the row
HandleJobEventFails_AfterWrite(i) ==
  /\ i \in 1..Len(handlers)
  /\ handlers[i].pc = "job"
  /\ jobs' = JobQuery(jobs, handlers[i].ev, now)
  /\ handlers' = RemoveAt(handlers, i)
  /\ now' = now + 1
  /\ UNCHANGED <<ads, reaction_videos, producerVars, claimed, nEvents, cancelVars, hubVars>>

\* handleJobEvent: db.query on table jobs rejects (the database cannot be
\* reached, the statement is refused); the catch logs the error and the
\* invocation ends without the query on the entity
HandleJobEventFails(i) ==
  /\ i \in 1..Len(handlers)
  /\ handlers[i].pc = "job"
  /\ handlers' = RemoveAt(handlers, i)
  /\ UNCHANGED <<ledgerVars, producerVars, claimed, nEvents, cancelVars, now, hubVars>>

\* handleJobEvent: db.query on the referenced entity rejects; the catch logs
HandleEntityEventFails(i) ==
  /\ i \in 1..Len(handlers)
  /\ handlers[i].pc = "entity"
  /\ handlers' = RemoveAt(handlers, i)
  /\ UNCHANGED <<ledgerVars, producerVars, claimed, nEvents, cancelVars, now, hubVars>>

\* ------------------------------------------------------ the cancel route
\* router.delete('/:id') up to the call of cancelJob: 404 without a row,
\* 400 unless the job is queued or processing
CancelRoute(j) ==
  /\ nCancels < MaxCancels
  /\ nCancels' = nCancels + 1
  /\ cancelPending' =
       IF j \in DOMAIN jobs /\ jobs[j].status \in {"queued", "processing"}
         THEN cancelPending \cup {j}
         ELSE cancelPending
  /\ UNCHANGED <<ledgerVars, producerVars, claimed, relayVars, now, hubVars>>

\* jobQueue.cancelJob: the UPDATE
CancelJob(j) ==
  /\ j \in cancelPending
  /\ jobs' = UpdateJob(jobs, j, cancelJob(jobs[j]))
  /\ cancelPending' = cancelPending \ {j}
  /\ UNCHANGED <<ads, reaction_videos, producerVars, claimed, relayVars, nCancels, now, hubVars>>

\* ---------------------------------------------------------------- the hub
Connected(s) == s \in DOMAIN connectedClients

\* a message a client emits to the hub
Message(type, jobId) == [type |-> type, jobId |-> jobId]

\* a join that takes a socket already in the room out of it
join_Toggles(joined, jobId) ==
  IF jobId \in joined THEN joined \ {jobId} ELSE joined \cup {jobId}

\* a leave that does nothing
leave_Stays(joined, jobId) == joined

\* socket.join(room) / socket.leave(room): a room is a set of sockets
join(joined, jobId) == joined \cup {jobId}
leave(joined, jobId) == joined \ {jobId}

\* io.on('connection'): the client is recorded with no subscriptions
Connect(s) ==
  /\ ~Connected(s)
  /\ connectedClients' = connectedClients @@ (s :> {})
  /\ UNCHANGED <<ledgerVars, producerVars, claimed, relayVars, cancelVars, now,
                 rooms, received, clientVars>>

\* socket.on('subscribe:job'): the oldest message of the socket is handled
SubscribeJob(s) ==
  /\ Connected(s)
  /\ toServer[s] # << >>
  /\ Head(toServer[s]).type = "subscribe:job"
  /\ LET jobId == Head(toServer[s]).jobId
     IN /\ rooms' = [rooms EXCEPT ![s] = join(@, jobId)]
        /\ connectedClients' = [connectedClients EXCEPT ![s] = @ \cup {jobId}]
  /\ toServer' = [toServer EXCEPT ![s] = Tail(@)]
  /\ UNCHANGED <<ledgerVars, producerVars, claimed, relayVars, cancelVars, now,
                 received, cursor, observers>>

\* socket.on('unsubscribe:job')
UnsubscribeJob(s) ==
  /\ Connected(s)
  /\ toServer[s] # << >>
  /\ Head(toServer[s]).type = "unsubscribe:job"
  /\ LET jobId == Head(toServer[s]).jobId
     IN /\ rooms' = [rooms EXCEPT ![s] = leave(@, jobId)]
        /\ connectedClients' = [connectedClients EXCEPT ![s] = @ \ {jobId}]
  /\ toServer' = [toServer EXCEPT ![s] = Tail(@)]
  /\ UNCHANGED <<ledgerVars, producerVars, claimed, relayVars, cancelVars, now,
                 received, cursor, observers>>

\* a disconnect after which the socket is still in its rooms
Disconnect_StaysInRooms(s) ==
  /\ Connected(s)
  /\ connectedClients' = [t \in DOMAIN connectedClients \ {s} |-> connectedClients[t]]
  /\ UNCHANGED <<ledgerVars, producerVars, claimed, relayVars, cancelVars, now,
                 rooms, received, clientVars>>

\* socket.on('disconnect'): the client's entry is deleted; socket.io takes the
\* socket out of every room
Disconnect(s) ==
  /\ Connected(s)
  /\ connectedClients' = [t \in DOMAIN connectedClients \ {s} |-> connectedClients[t]]
  /\ rooms' = [rooms EXCEPT ![s] = {}]
  /\ UNCHANGED <<ledgerVars, producerVars, claimed, relayVars, cancelVars, now,
                 received, clientVars>>

\* ------------------------------------------------------------- the client
\* the connection of the page that mounts the observers: lib/socket.js keeps
\* one socket for the whole page
PageSocket == 1

\* the observer of the upload page: its one call of useJobProgress
UploadPageObserver == 1

\* a client emits subscribe:job or unsubscribe:job once its previous message
\* has been handled
ClientEmit(s, type, jobId) ==
  /\ toServer[s] = << >>
  /\ toServer' = [toServer EXCEPT ![s] = Append(@, Message(type, jobId))]
  /\ UNCHANGED <<ledgerVars, producerVars, claimed, relayVars, cancelVars, now,
                 rooms, received, connectedClients, cursor, observers>>

\* the handlers of subscribeToJob with their test removed: every event of the
\* socket is taken for the observer's job
Deliver_AnyJob(ob, e) ==
  IF ob.listening = 0 THEN ob
  ELSE CASE e.event = "progress" -> [ob EXCEPT !.progress = ProgressOrZero(e.progress)]
         [] e.event = "completed" -> [ob EXCEPT !.status = "completed", !.progress = 100]
         [] e.event = "error" -> [ob EXCEPT !.status = "failed"]
         [] OTHER -> ob

\* progressHandler / completedHandler / errorHandler of subscribeToJob calling
\* onProgress / onCompleted / onError of useJobProgress; no handler is
\* registered for job:frame
Deliver(ob, e) ==
  IF ob.listening = 0 \/ e.jobId # ob.listening THEN ob
  ELSE CASE e.event = "progress" -> [ob EXCEPT !.progress = ProgressOrZero(e.progress)]
         [] e.event = "completed" -> [ob EXCEPT !.status = "completed", !.progress = 100]
         [] e.event = "error" -> [ob EXCEPT !.status = "failed"]
         [] OTHER -> ob

\* the client socket dispatches the next event it was sent to the handlers
\* registered on it
ClientDispatch(s) ==
  /\ cursor[s] < Len(received[s])
  /\ cursor' = [cursor EXCEPT ![s] = @ + 1]
  /\ observers' = IF s = PageSocket
                    THEN [o \in ObsIds |-> Deliver(observers[o], received[s][cursor[s] + 1])]
                    ELSE observers
  /\ UNCHANGED <<ledgerVars, producerVars, claimed, relayVars, cancelVars, now,
                 rooms, received, connectedClients, toServer>>

\* the cleanup of the effect without socket.emit('unsubscribe:job')
Unsubscribe_OnlyOff(ob) == << >>

\* the closure subscribeToJob returned, called by the cleanup of the effect:
\* what it emits
Unsubscribe(ob) ==
  IF ob.listening # 0 THEN <<Message("unsubscribe:job", ob.listening)>> ELSE << >>

\* the effect of useJobProgress after the job id changed to jobId: the cleanup
\* of the previous effect, then the effect itself
EffectJobId(o, jobId) ==
  /\ observers[o].mounted
  /\ jobId # observers[o].jobId
  /\ LET ob == observers[o]
         emitted == Unsubscribe(ob) \o
                    (IF jobId # 0 THEN <<Message("subscribe:job", jobId)>> ELSE << >>)
     IN /\ Len(toServer[PageSocket]) + Len(emitted) <= MaxOutbox
        /\ toServer' = [toServer EXCEPT ![PageSocket] = @ \o emitted]
        /\ observers' = [observers EXCEPT ![o] =
             IF jobId = 0
               THEN [mounted |-> TRUE, jobId |-> 0, status |-> "idle",
                     progress |-> 0, listening |-> 0]
               ELSE [mounted |-> TRUE, jobId |-> jobId, status |-> "processing",
                     progress |-> 0, listening |-> jobId]]
  /\ UNCHANGED <<ledgerVars, producerVars, claimed, relayVars, cancelVars, now,
                 rooms, received, connectedClients, cursor>>

\* the component that uses the hook unmounts: the cleanup of the effect
Unmount(o) ==
  /\ observers[o].mounted
  /\ Len(toServer[PageSocket]) + Len(Unsubscribe(observers[o])) <= MaxOutbox
  /\ toServer' = [toServer EXCEPT ![PageSocket] = @ \o Unsubscribe(observers[o])]
  /\ observers' = [observers EXCEPT ![o].mounted = FALSE, ![o].listening = 0]
  /\ UNCHANGED <<ledgerVars, producerVars, claimed, relayVars, cancelVars, now,
                 rooms, received, connectedClients, cursor>>

\* reset() of useJobProgress
Reset(o) ==
  /\ observers[o].mounted
  /\ observers' = [observers EXCEPT ![o].status = "idle", ![o].progress = 0]
  /\ UNCHANGED <<ledgerVars, producerVars, claimed, relayVars, cancelVars, now,
                 rooms, received, connectedClients, toServer, cursor>>

\* ------------------------------------------------------------------ Next
Next ==
  \/ \E r \in ReqIds, kind \in {"ad", "reaction_video"} :
       \E id \in EntityIds(kind) \cup {0} : AnalyzeRoute(r, kind, id)
  \/ \E r \in ReqIds : CreateJobInsert(r)
  \/ \E r \in ReqIds : CreateJobEntity(r)
  \/ \E r \in ReqIds : CreateJobPush(r)
  \/ \E r \in ReqIds : CreateJobPushFail(r)
  \/ \E q \in {"ad_analysis", "emotion_analysis"} : WorkerClaim(q)
  \/ \E d \in claimed : \E ev \in WorkerEvents(d) : RelayMessage(ev)
  \/ RelayMalformed
  \/ \E i \in 1..MaxInFlight : HandleJobEvent(i)
  \/ \E i \in 1..MaxInFlight : HandleEntityEvent(i)
  \/ \E j \in JobIds : CancelRoute(j)
  \/ \E j \in JobIds : CancelJob(j)

Spec == Init /\ [][Next]_vars

\* ------------------------------------------------- the hub while jobs run
\* the state after ad 1 and reaction video 1 were sent for analysis, as jobs 1
\* and 2, and a worker took each descriptor off its queue
InitRunning ==
  /\ jobs = (1 :> NewJobRow("ad_analysis", "ad", 1, "queued"))
            @@ (2 :> NewJobRow("emotion_analysis", "reaction_video", 1, "queued"))
  /\ ads = [a \in AdIds |->
              [status |-> IF a = 1 THEN "queued" ELSE "uploaded", error_message |-> NULL]]
  /\ reaction_videos = [v \in ReactionIds |->
              [status |-> IF v = 1 THEN "queued" ELSE "uploaded", error_message |-> NULL]]
  /\ queue = [ad_analysis |-> << >>, emotion_analysis |-> << >>]
  /\ claimed = {[job_id |-> 1, kind |-> "ad", ref_id |-> 1],
                [job_id |-> 2, kind |-> "reaction_video", ref_id |-> 1]}
  /\ reqs = [r \in ReqIds |->
               IF r <= 2 THEN Answered("done", r)
                         ELSE [pc |-> "idle", kind |-> "ad", id |-> 0, jobId |-> 0]]
  /\ handlers = << >>
  /\ nEvents = 0
  /\ cancelPending = {}
  /\ nCancels = 0
  /\ now = 1
  /\ rooms = [s \in Sockets |-> {}]
  /\ received = [s \in Sockets |-> << >>]
  /\ connectedClients = << >>
  /\ toServer = [s \in Sockets |-> << >>]
  /\ cursor = [s \in Sockets |-> 0]
  /\ observers = [o \in ObsIds |-> NewObserver]

\* the messages of a worker that reports its progress, then the outcome
LiveEvents(d) ==
  { Event("progress", d.job_id, Some(40), Some("detecting objects"), NULL, NULL,
          NULL, d.ref_id),
    Event("completed", d.job_id, NULL, NULL, NULL, NULL, Some(d.kind), d.ref_id),
    Event("error", d.job_id, NULL, NULL, Some("decode failed"), NULL,
          Some(d.kind), d.ref_id) }

\* the relay, as far as the hub and its clients see it
NextRelay ==
  \/ \E d \in claimed : \E ev \in LiveEvents(d) : RelayMessage(ev)
  \/ RelayMalformed
  \/ \E i \in 1..MaxInFlight : HandleJobEvent(i)
  \/ \E i \in 1..MaxInFlight : HandleEntityEvent(i)

\* the messages of a worker whose job succeeds
SuccessEvents(d) == {ev \in LiveEvents(d) : ev.type \in {"progress", "completed"}}

\* the hub with clients that emit any subscribe:job / unsubscribe:job message,
\* while the relay receives the messages of jobs that succeed. The ledger
\* queries of handleJobEvent touch nothing the hub reads; their steps are
\* part of Next and NextObserver.
NextHub ==
  \/ \E d \in claimed : \E ev \in SuccessEvents(d) : RelayMessage(ev)
  \/ RelayMalformed
  \/ \E s \in Sockets : Connect(s)
  \/ \E s \in Sockets : Disconnect(s)
  \/ \E s \in Sockets, type \in {"subscribe:job", "unsubscribe:job"}, j \in JobIds :
       ClientEmit(s, type, j)
  \/ \E s \in Sockets : SubscribeJob(s)
  \/ \E s \in Sockets : UnsubscribeJob(s)

SpecHub == InitRunning /\ [][NextHub]_vars

\* the relay with a database whose statements can fail
NextFaults ==
  \/ \E d \in claimed : \E ev \in {e \in WorkerEvents(d) : e.type # "frame"} :
       RelayMessage(ev)
  \/ \E i \in 1..MaxInFlight : HandleJobEvent(i)
  \/ \E i \in 1..MaxInFlight : HandleEntityEvent(i)
  \/ \E i \in 1..MaxInFlight : HandleJobEventFails(i)
  \/ \E i \in 1..MaxInFlight : HandleEntityEventFails(i)

SpecFaults == InitRunning /\ [][NextFaults]_vars

\* the upload page with its observer, connected to the hub
NextObserver ==
  \/ NextRelay
  \/ Connect(PageSocket)
  \/ Disconnect(PageSocket)
  \/ SubscribeJob(PageSocket)
  \/ UnsubscribeJob(PageSocket)
  \/ ClientDispatch(PageSocket)
  \/ \E j \in JobIds \cup {0} : EffectJobId(UploadPageObserver, j)
  \/ Unmount(UploadPageObserver)
  \/ Reset(UploadPageObserver)

SpecObserver == InitRunning /\ [][NextObserver]_vars

\* a page on which several components use the hook: every observer registers
\* its handlers on the one socket of lib/socket.js. The relay receives the
\* messages of jobs that succeed; the connection stays up.
NextShared ==
  \/ \E d \in claimed : \E ev \in SuccessEvents(d) : RelayMessage(ev)
  \/ Connect(PageSocket)
  \/ SubscribeJob(PageSocket)
  \/ UnsubscribeJob(PageSocket)
  \/ ClientDispatch(PageSocket)
  \/ \E o \in ObsIds, j \in JobIds \cup {0} : EffectJobId(o, j)
  \/ \E o \in ObsIds : Unmount(o)

SpecShared == InitRunning /\ [][NextShared]_vars

TypeOK ==
  /\ DOMAIN jobs \subseteq JobIds
  /\ \A j \in DOMAIN jobs :
       /\ jobs[j].status \in JobStatuses
       /\ ProgressCheck(jobs[j].progress)
  /\ \A a \in AdIds : ads[a].status \in EntityStatuses
  /\ \A v \in ReactionIds : reaction_videos[v].status \in EntityStatuses
  /\ now \in 1..(MaxEvents + 1)
  /\ Len(handlers) <= MaxInFlight

\* ------------------------------------------------- steps of the relay
Terminal(row) == row.status \in TerminalStatuses

\* this step is the ledger query of handleJobEvent for an event of one of
\* `types` that names a job with a ledger row
Handles(i, types) ==
  /\ i \in 1..Len(handlers)
  /\ handlers[i].pc = "job"
  /\ handlers[i].ev.type \in types
  /\ handlers[i].ev.jobId \in DOMAIN jobs
  /\ HandleJobEvent(i)

EventOf(i) == handlers[i].ev
RowOf(i) == jobs[handlers[i].ev.jobId]
RowAfter(i) == jobs'[handlers[i].ev.jobId]

\* C1: a completed or error event handled for a job whose status is already
\* completed or failed leaves every field of the job's ledger row unchanged.
C1_TerminalEventIsNoOp ==
  [][\A i \in 1..MaxInFlight :
       (Handles(i, {"completed", "error"}) /\ RowOf(i).status \in {"completed", "failed"})
         => RowAfter(i) = RowOf(i)]_vars

\* C2: a progress event handled after the job has become terminal does not
\* change the ledger row: status, progress and current_step stay as they were.
C2_ProgressAfterTerminalIsNoOp ==
  [][\A i \in 1..MaxInFlight :
       (Handles(i, {"progress"}) /\ Terminal(RowOf(i)))
         => /\ RowAfter(i).status = RowOf(i).status
            /\ RowAfter(i).progress = RowOf(i).progress
            /\ RowAfter(i).current_step = RowOf(i).current_step]_vars

\* C3: a progress event applied to a job that is not terminal never lowers
\* the stored progress, whatever progress value the event carries or omits.
C3_ProgressMonotonic ==
  [][\A i \in 1..MaxInFlight :
       (Handles(i, {"progress"}) /\ ~Terminal(RowOf(i)))
         => RowAfter(i).progress >= RowOf(i).progress]_vars

\* C4: once a job's status is cancelled, no later step changes its ledger row.
C4_CancelledIsFinal ==
  [][\A j \in DOMAIN jobs :
       jobs[j].status = "cancelled" => (j \in DOMAIN jobs' /\ jobs'[j] = jobs[j])]_vars

\* the value a clamp to [0,100] gives
Clamped(p) == IF p < 0 THEN 0 ELSE IF p > 100 THEN 100 ELSE p

\* C5: a progress event whose value is below 0 or above 100, handled for a job
\* that is not terminal, stores the value clamped to the nearest bound and
\* applies the event's other effects: current_step, started_at, processing.
C5_OutOfRangeIsClamped ==
  [][\A i \in 1..MaxInFlight :
       (/\ Handles(i, {"progress"})
        /\ ~Terminal(RowOf(i))
        /\ EventOf(i).progress # NULL
        /\ ~(EventOf(i).progress[1] \in 0..100))
         => /\ RowAfter(i).progress = Clamped(EventOf(i).progress[1])
            /\ RowAfter(i).current_step = Some(TextOrEmpty(EventOf(i).step))
            /\ RowAfter(i).started_at # NULL
            /\ RowAfter(i).status = "processing"]_vars

\* C8: the first progress event handled for a queued job, with progress p in
\* [0,100] and step s, leaves the row with status processing, progress p,
\* current_step s and started_at set.
C8_FirstProgress ==
  [][\A i \in 1..MaxInFlight :
       (/\ Handles(i, {"progress"})
        /\ RowOf(i).status = "queued"
        /\ EventOf(i).progress # NULL
        /\ EventOf(i).progress[1] \in 0..100
        /\ EventOf(i).step # NULL)
         => /\ RowAfter(i).status = "processing"
            /\ RowAfter(i).progress = EventOf(i).progress[1]
            /\ RowAfter(i).current_step = EventOf(i).step
            /\ RowOf(i).started_at = NULL
            /\ RowAfter(i).started_at # NULL]_vars

C8_Witness ==
  \E j \in DOMAIN jobs :
    /\ jobs[j].status = "processing"
    /\ jobs[j].progress = 40
    /\ jobs[j].current_step = Some("detecting objects")
    /\ jobs[j].started_at # NULL
    /\ jobs[j].completed_at = NULL

\* C9: a completed event handled for a job that is queued or processing sets
\* the row to status completed, progress 100, and sets completed_at.
C9_Completed ==
  [][\A i \in 1..MaxInFlight :
       (Handles(i, {"completed"}) /\ RowOf(i).status \in {"queued", "processing"})
         => /\ RowAfter(i).status = "completed"
            /\ RowAfter(i).progress = 100
            /\ RowAfter(i).completed_at # NULL]_vars

C9_Witness ==
  \E j \in DOMAIN jobs :
    /\ jobs[j].status = "completed"
    /\ jobs[j].progress = 100
    /\ jobs[j].completed_at # NULL
    /\ jobs[j].error_message = NULL

\* C10: an error event handled for a queued job that has had no progress
\* event moves it from queued to failed in one step, stores the event's error
\* as error_message and its stack as error_stack, and sets completed_at; the
\* row never shows processing: started_at stays NULL.
C10_ErrorFromQueued ==
  [][\A i \in 1..MaxInFlight :
       (/\ Handles(i, {"error"})
        /\ RowOf(i).status = "queued"
        /\ RowOf(i).started_at = NULL)
         => /\ RowAfter(i).status = "failed"
            /\ RowAfter(i).error_message = EventOf(i).error
            /\ RowAfter(i).error_stack =
                 (IF EventOf(i).stack = NULL THEN Some("") ELSE EventOf(i).stack)
            /\ RowAfter(i).completed_at # NULL
            /\ RowAfter(i).started_at = NULL
            /\ RowAfter(i).progress = RowOf(i).progress]_vars

C10_Witness ==
  \E j \in DOMAIN jobs :
    /\ jobs[j].status = "failed"
    /\ jobs[j].error_message = Some("decode failed")
    /\ jobs[j].error_stack = Some("")
    /\ jobs[j].started_at = NULL
    /\ jobs[j].completed_at # NULL

\* ----------------------------------------------- steps of the producer
\* how many descriptors carrying job id j are on a queue or held by a worker
DescriptorCount(j) ==
  Cardinality({k \in 1..Len(queue.ad_analysis) : queue.ad_analysis[k].job_id = j})
  + Cardinality({k \in 1..Len(queue.emotion_analysis) :
                   queue.emotion_analysis[k].job_id = j})
  + Cardinality({d \in claimed : d.job_id = j})

QueuedDescriptors == Len(queue.ad_analysis) + Len(queue.emotion_analysis)

EntityStatusAfter(kind, id) ==
  IF kind = "ad" THEN ads'[id].status ELSE reaction_videos'[id].status

\* C6: a successful createJob call inserts exactly one ledger row, with status
\* queued, under a job id no row had; sets the referenced entity's status to
\* queued; pushes exactly one descriptor, carrying that job id; and returns
\* that job id before any worker event for the job has been received.
C6_CreateJob ==
  [][\A r \in ReqIds :
       /\ CreateJobInsert(r) =>
            LET j == reqs'[r].jobId
            IN /\ j \notin DOMAIN jobs
               /\ DOMAIN jobs' = DOMAIN jobs \cup {j}
               /\ \A k \in DOMAIN jobs : jobs'[k] = jobs[k]
               /\ jobs'[j].status = "queued"
               /\ jobs'[j].progress = 0
               /\ jobs'[j].reference_type = reqs[r].kind
               /\ jobs'[j].reference_id = reqs[r].id
               /\ jobs'[j].job_type = JobTypeOf(reqs[r].kind)
       /\ CreateJobEntity(r) =>
            /\ EntityStatusAfter(reqs[r].kind, reqs[r].id) = "queued"
            /\ jobs' = jobs
       /\ CreateJobPush(r) =>
            LET j == reqs[r].jobId
            IN /\ reqs'[r].pc = "done"
               /\ reqs'[r].jobId = j
               /\ j \in DOMAIN jobs
               /\ jobs' = jobs
               /\ DescriptorCount(j) = 0
               /\ DescriptorCount(j)' = 1
               /\ QueuedDescriptors' = QueuedDescriptors + 1
               /\ queue'[QueueOf(reqs[r].kind)][1] =
                    [job_id |-> j, kind |-> reqs[r].kind, ref_id |-> reqs[r].id]
               /\ jobs[j].started_at = NULL
               /\ jobs[j].completed_at = NULL
               /\ \A i \in 1..Len(handlers) : handlers[i].ev.jobId # j]_vars

C6_Witness ==
  \E r \in ReqIds :
    /\ reqs[r].pc = "done"
    /\ reqs[r].jobId \in DOMAIN jobs
    /\ jobs[reqs[r].jobId].status = "queued"
    /\ jobs[reqs[r].jobId].reference_type = "reaction_video"
    /\ reaction_videos[jobs[reqs[r].jobId].reference_id].status = "queued"
    /\ DescriptorCount(reqs[r].jobId) = 1
    /\ nEvents = 0

\* the job of the call that request r is making
JobOfCall(r) == reqs[r].jobId

\* C7 as first stated: when the queue does not accept the descriptor,
\* createJob fails with an error handed to its caller, no descriptor is
\* enqueued, and the row it wrote is present with status queued.
C7_PushFailLeavesQueuedRow ==
  [][\A r \in ReqIds :
       CreateJobPushFail(r) =>
         /\ reqs'[r].pc = "error"
         /\ queue' = queue
         /\ DescriptorCount(JobOfCall(r))' = 0
         /\ JobOfCall(r) \in DOMAIN jobs'
         /\ jobs'[JobOfCall(r)].status = "queued"]_vars

\* C7, amended: when the queue does not accept the descriptor, createJob fails
\* with an error handed to its caller, no descriptor is enqueued, and the row
\* it wrote is present and untouched by the failing call; no worker event has
\* reached it, and its status is queued unless a cancel request handled in the
\* meantime has set it to cancelled.
C7_PushFailLeavesRow ==
  [][\A r \in ReqIds :
       CreateJobPushFail(r) =>
         /\ reqs'[r].pc = "error"
         /\ queue' = queue
         /\ DescriptorCount(JobOfCall(r))' = 0
         /\ JobOfCall(r) \in DOMAIN jobs'
         /\ jobs'[JobOfCall(r)] = jobs[JobOfCall(r)]
         /\ jobs'[JobOfCall(r)].status \in {"queued", "cancelled"}
         /\ [jobs'[JobOfCall(r)] EXCEPT !.status = "queued"] =
              NewJobRow(JobTypeOf(reqs[r].kind), reqs[r].kind, reqs[r].id, "queued")]_vars

C7_Witness ==
  /\ \E r \in ReqIds : reqs[r].pc = "error"
  /\ \E j \in DOMAIN jobs :
       /\ jobs[j].status = "queued"
       /\ DescriptorCount(j) = 0
       /\ \A r \in ReqIds : reqs[r].jobId # j
\* ------------------------------------- propagation to the referenced entity
\* the status (and error_message) after this step of the entity that the
\* ledger row names with reference_type and reference_id
ReferencedEntityAfter(row) ==
  IF row.reference_type = "ad"
    THEN ads'[row.reference_id]
    ELSE reaction_videos'[row.reference_id]

\* this step ends the handling of the event of invocation i
Finishes(i) == Len(handlers') < Len(handlers)

\* the ledger query of invocation i, for an event of one of `types`, has
\* been applied to a row that was not terminal
Applied(i, types) ==
  /\ i \in 1..Len(handlers)
  /\ handlers[i].pc = "entity"
  /\ handlers[i].ev.type \in types
  /\ handlers[i].ev.jobId \in DOMAIN jobs

\* C11: when the handling of a completed event applied to a job that was not
\* terminal ends, the entity named by the job's ledger row (reference_type,
\* reference_id) has status completed; when the handling of an error event
\* ends, that entity has status failed and the event's error as error_message.
C11_EntityFollowsJob ==
  [][\A i \in 1..MaxInFlight :
       /\ (Handles(i, {"completed"}) /\ ~Terminal(RowOf(i)) /\ Finishes(i))
            => ReferencedEntityAfter(RowOf(i)).status = "completed"
       /\ (Handles(i, {"error"}) /\ ~Terminal(RowOf(i)) /\ Finishes(i))
            => /\ ReferencedEntityAfter(RowOf(i)).status = "failed"
               /\ ReferencedEntityAfter(RowOf(i)).error_message = EventOf(i).error
       /\ (Applied(i, {"completed"}) /\ HandleEntityEvent(i))
            => ReferencedEntityAfter(RowOf(i)).status = "completed"
       /\ (Applied(i, {"error"}) /\ HandleEntityEvent(i))
            => /\ ReferencedEntityAfter(RowOf(i)).status = "failed"
               /\ ReferencedEntityAfter(RowOf(i)).error_message = EventOf(i).error]_vars

\* ------------------------------------------------------ steps of the hub
\* the hub holds a subscription of socket s to job j
Subscribed(s, j) == Connected(s) /\ j \in connectedClients[s]

\* the messages the workers that hold a descriptor can publish
PublishedEvents == UNION {LiveEvents(d) : d \in claimed}

\* this step sends event ev to socket s, after everything sent to it before
Delivers(s, ev) ==
  /\ Len(received'[s]) = Len(received[s]) + 1
  /\ SubSeq(received'[s], 1, Len(received[s])) = received[s]
  /\ received'[s][Len(received'[s])].jobId = ev.jobId
  /\ received'[s][Len(received'[s])].event = ev.type

\* the hub holds a subscription of socket s to job j after this step
SubscribedAfter(s, j) == s \in DOMAIN connectedClients' /\ j \in connectedClients'[s]

\* this step handles subscribe:job / unsubscribe:job of socket s for job j
SubscribesTo(s, j) == SubscribeJob(s) /\ Head(toServer[s]).jobId = j
UnsubscribesFrom(s, j) == UnsubscribeJob(s) /\ Head(toServer[s]).jobId = j

\* C12: the broadcast of an event of job J is delivered to exactly the
\* connections the hub holds as subscribed to J at that moment; a connection
\* not subscribed to J is sent nothing, whatever else it is subscribed to.
C12_BroadcastToSubscribers ==
  [][\A ev \in PublishedEvents :
       RelayMessage(ev) =>
         \A s \in Sockets :
           IF Subscribed(s, ev.jobId)
             THEN Delivers(s, ev)
             ELSE received'[s] = received[s]]_vars

C12_Witness ==
  \E s, t \in Sockets :
    /\ Subscribed(s, 1) /\ ~Subscribed(s, 2)
    /\ Subscribed(t, 2) /\ ~Subscribed(t, 1)
    /\ Len(received[s]) = 1 /\ received[s][1].jobId = 1
    /\ Len(received[t]) = 1 /\ received[t][1].jobId = 2

\* C13: subscribe and unsubscribe are idempotent: handled for a socket that
\* is already subscribed (already not subscribed) to the job, the message
\* leaves the hub's subscription state as the first one left it; and a socket
\* is sent each broadcast at most once.
C13_Idempotent ==
  [][\A s \in Sockets :
       /\ \A j \in JobIds :
            /\ SubscribesTo(s, j) =>
                 /\ SubscribedAfter(s, j) /\ j \in rooms'[s]
                 /\ (Subscribed(s, j) /\ j \in rooms[s])
                      => (rooms' = rooms /\ connectedClients' = connectedClients)
            /\ UnsubscribesFrom(s, j) =>
                 /\ ~SubscribedAfter(s, j) /\ j \notin rooms'[s]
                 /\ (~Subscribed(s, j) /\ j \notin rooms[s])
                      => (rooms' = rooms /\ connectedClients' = connectedClients)
       /\ Len(received'[s]) <= Len(received[s]) + 1]_vars

\* a second subscribe:job for a job the socket is subscribed to is about to
\* be handled, and the socket has been sent the one event broadcast so far
C13_Witness ==
  \E s \in Sockets, j \in JobIds :
    /\ Subscribed(s, j)
    /\ toServer[s] = <<Message("subscribe:job", j)>>
    /\ nEvents = 1
    /\ Len(received[s]) = 1 /\ received[s][1].jobId = j

\* C14: handling unsubscribe ends the subscription; it stays ended until a
\* subscribe:job of that socket for that job is handled; and while it is
\* ended no event broadcast for the job is sent to the socket.
C14_NoDeliveryAfterUnsubscribe ==
  [][\A s \in Sockets :
       /\ \A j \in JobIds :
            /\ UnsubscribesFrom(s, j) => ~SubscribedAfter(s, j)
            /\ (~Subscribed(s, j) /\ SubscribedAfter(s, j)) => SubscribesTo(s, j)
       /\ \A ev \in PublishedEvents :
            (RelayMessage(ev) /\ ~Subscribed(s, ev.jobId)) => received'[s] = received[s]]_vars

\* socket s was sent the first event of job 1 and, no longer subscribed, not
\* the second, which socket t was sent
C14_Witness ==
  \E s, t \in Sockets :
    /\ Connected(s) /\ connectedClients[s] = {}
    /\ Len(received[s]) = 1 /\ received[s][1].jobId = 1
    /\ Len(received[t]) = 2 /\ received[t][1].jobId = 1 /\ received[t][2].jobId = 1

\* C15: a disconnect releases the subscriptions of the connection: the hub
\* keeps no entry for it, it is in no room, and nothing broadcast afterwards
\* is sent to it.
C15_DisconnectReleases ==
  [][\A s \in Sockets :
       /\ Disconnect(s) => (s \notin DOMAIN connectedClients' /\ rooms'[s] = {})
       /\ ~Connected(s) =>
            /\ rooms[s] = {}
            /\ \A j \in JobIds : ~SubscribedAfter(s, j)
       /\ \A ev \in PublishedEvents :
            (RelayMessage(ev) /\ ~Connected(s)) => received'[s] = received[s]]_vars

\* socket s was sent the first event of job 1, is disconnected, and was not
\* sent the second, which socket t was sent
C15_Witness ==
  \E s, t \in Sockets :
    /\ ~Connected(s)
    /\ Len(received[s]) = 1 /\ received[s][1].jobId = 1
    /\ Len(received[t]) = 2 /\ received[t][1].jobId = 1 /\ received[t][2].jobId = 1

\* C16: a socket subscribed to job J is sent every event the relay receives
\* for J, each one after all those sent before, and nothing else changes what
\* it was sent: it is sent job:progress before job:completed when the relay
\* received them in that order. The client dispatches them in that order too.
C16_BroadcastOrder ==
  [][\A s \in Sockets :
       /\ received'[s] # received[s] =>
            \E ev \in PublishedEvents :
              RelayMessage(ev) /\ Subscribed(s, ev.jobId) /\ Delivers(s, ev)
       /\ \A ev \in PublishedEvents :
            (RelayMessage(ev) /\ Subscribed(s, ev.jobId)) => Delivers(s, ev)
       /\ cursor'[s] # cursor[s] =>
            /\ ClientDispatch(s)
            /\ cursor'[s] = cursor[s] + 1
            /\ s = PageSocket =>
                 \A o \in ObsIds :
                   observers'[o] = Deliver(observers[o], received[s][cursor[s] + 1])]_vars

\* the page, subscribed to job 1 before its events, was sent job:progress and
\* then job:completed, and its observer ended completed
C16_Witness ==
  /\ Len(received[PageSocket]) = 2
  /\ received[PageSocket][1].event = "progress" /\ received[PageSocket][1].jobId = 1
  /\ received[PageSocket][2].event = "completed" /\ received[PageSocket][2].jobId = 1
  /\ cursor[PageSocket] = 2
  /\ \E o \in ObsIds :
       /\ observers[o].jobId = 1
       /\ observers[o].status = "completed"
       /\ observers[o].progress = 100

\* -------------------------------------------- messages the relay drops
\* this step receives a message that is none of the messages that parse
ReceivesMalformed ==
  /\ nEvents' = nEvents + 1
  /\ \A ev \in PublishedEvents : ~RelayMessage(ev)

\* C17: a message whose body does not parse changes no table, is broadcast
\* to no socket and starts no handling; the handlings in flight and the
\* subscriptions stay as they are, so the messages after it are received,
\* broadcast and applied as usual.
C17_MalformedIsDropped ==
  [][ReceivesMalformed =>
       /\ UNCHANGED <<jobs, ads, reaction_videos>>
       /\ UNCHANGED received
       /\ UNCHANGED <<handlers, rooms, connectedClients, now>>
       /\ (nEvents' < MaxEvents /\ Len(handlers) < MaxInFlight) =>
            \A ev \in PublishedEvents : ENABLED RelayMessage(ev)]_vars

\* of two messages one did not parse; the other, a completed event of job 1,
\* was broadcast to the page and applied to the job and to the ad
C17_Witness ==
  /\ nEvents = 2
  /\ now = 2
  /\ handlers = << >>
  /\ jobs[1].status = "completed"
  /\ ads[1].status = "completed"
  /\ Len(received[PageSocket]) = 1
  /\ received[PageSocket][1].event = "completed"

\* ------------------------------------------------- failing ledger writes
\* this step is the query on table jobs of invocation i and the query fails:
\* the database rejects it, or the row it would write violates a CHECK
JobWriteFails(i) ==
  /\ i \in 1..Len(handlers)
  /\ handlers[i].pc = "job"
  /\ \/ HandleJobEventFails(i)
     \/ HandleJobEvent(i) /\ JobQueryThrows(jobs, handlers[i].ev, now)

\* C18: when the write to table jobs fails while an event is handled, the
\* failure is caught: table jobs is left as it was before the event, the
\* invocation ends without the entity update and without being started again,
\* and the other invocations and the messages still to come are unaffected.
C18_FailedWriteIsDropped ==
  [][\A i \in 1..MaxInFlight :
       JobWriteFails(i) =>
         /\ jobs' = jobs
         /\ UNCHANGED <<ads, reaction_videos>>
         /\ handlers' = RemoveAt(handlers, i)
         /\ nEvents' = nEvents
         /\ (nEvents < MaxEvents /\ Len(handlers) < MaxInFlight) =>
              \A d \in claimed : \A ev \in LiveEvents(d) : ENABLED RelayMessage(ev)]_vars

\* of two events received, the write of one was rejected by the database and
\* the other, a completed event of job 2, was applied; job 1 is untouched
C18_Witness ==
  /\ nEvents = 2
  /\ now = 2
  /\ handlers = << >>
  /\ jobs[1] = NewJobRow("ad_analysis", "ad", 1, "queued")
  /\ jobs[2].status = "completed"
  /\ reaction_videos[1].status = "completed"

\* ------------------------------------------------- steps of the observer
\* the messages this step adds to those the page has emitted
Emitted ==
  SubSeq(toServer'[PageSocket], Len(toServer[PageSocket]) + 1, Len(toServer'[PageSocket]))

\* this step emits nothing, or adds its messages after the waiting ones
EmitsInOrder ==
  \/ Len(toServer'[PageSocket]) < Len(toServer[PageSocket])
  \/ SubSeq(toServer'[PageSocket], 1, Len(toServer[PageSocket])) = toServer[PageSocket]

\* the event the page's socket dispatches next
NextEvent == received[PageSocket][cursor[PageSocket] + 1]

\* the event type that moves an observer to the status
EventFor(status) == IF status = "completed" THEN "completed" ELSE "error"

\* C19: an observer whose job id is falsy has status idle and no handlers
\* registered, and the effect that finds the job id falsy emits no
\* subscribe:job; the status becomes processing exactly when the effect
\* subscribes to a job id; it becomes completed or failed only when the socket
\* dispatches the completed or error event of the observer's job.
C19_ObserverStatus ==
  [][\A o \in ObsIds :
       /\ observers[o].jobId = 0 =>
            (observers[o].status = "idle" /\ observers[o].listening = 0)
       /\ EffectJobId(o, 0) =>
            /\ EmitsInOrder
            /\ \A k \in 1..Len(Emitted) : Emitted[k].type # "subscribe:job"
            /\ observers'[o].status = "idle"
       /\ \A j \in JobIds :
            EffectJobId(o, j) =>
              /\ observers'[o].status = "processing"
              /\ observers'[o].listening = j
              /\ EmitsInOrder
              /\ Emitted # << >>
              /\ Emitted[Len(Emitted)] = Message("subscribe:job", j)
       /\ (observers'[o].status = "processing" /\ observers[o].status # "processing")
            => \E j \in JobIds : EffectJobId(o, j)
       /\ (/\ observers'[o].status \in {"completed", "failed"}
           /\ observers'[o].status # observers[o].status)
            => /\ ClientDispatch(PageSocket)
               /\ observers[o].jobId # 0
               /\ NextEvent.jobId = observers[o].jobId
               /\ NextEvent.event = EventFor(observers'[o].status)]_vars

\* an observer given job 2 was moved to failed by the error event of job 2
C19_Witness ==
  \E o \in ObsIds :
    /\ observers[o].jobId = 2
    /\ observers[o].status = "failed"
    /\ cursor[PageSocket] = 1
    /\ received[PageSocket][1] = [event |-> "error", jobId |-> 2, progress |-> NULL]

\* the job ids the mounted observers have handlers registered for
Listening == {observers[o].listening : o \in {x \in ObsIds : observers[x].mounted}} \ {0}

\* this step runs the cleanup of the effect of observer o
CleansUp(o) == Unmount(o) \/ \E j \in JobIds \cup {0} : EffectJobId(o, j)

\* C20: when the job id of an observer changes or the observer is disposed,
\* the cleanup emits unsubscribe:job for the previous job id, before anything
\* else, and removes the handlers registered for it. A disposed observer is
\* never updated again, an observer is not updated by the events of another
\* job than its own, and once the hub has handled what the page emitted the
\* page's socket is in no room but those of jobs a mounted observer listens to.
C20_CleanupUnsubscribes ==
  [][\A o \in ObsIds :
       /\ (CleansUp(o) /\ observers[o].listening # 0) =>
            /\ EmitsInOrder
            /\ Emitted # << >>
            /\ Emitted[1] = Message("unsubscribe:job", observers[o].listening)
            /\ observers'[o].listening # observers[o].listening
       /\ ~observers[o].mounted =>
            (observers[o].listening = 0 /\ observers'[o] = observers[o])
       /\ (ClientDispatch(PageSocket) /\ NextEvent.jobId # observers[o].jobId)
            => observers'[o] = observers[o]
       /\ toServer[PageSocket] = << >> => rooms[PageSocket] \subseteq Listening]_vars

\* the observer of job 1 was sent job:progress, was disposed, and the hub has
\* handled its unsubscribe: the completed event of job 1 was not sent to it
C20_Witness ==
  /\ \E o \in ObsIds :
       /\ ~observers[o].mounted
       /\ observers[o].jobId = 1
       /\ observers[o].status = "processing"
       /\ observers[o].progress = 40
  /\ Connected(PageSocket)
  /\ toServer[PageSocket] = << >>
  /\ rooms[PageSocket] = {}
  /\ cursor[PageSocket] = 1
  /\ Len(received[PageSocket]) = 1
  /\ received[PageSocket][1].event = "progress"
  /\ jobs[1].status = "completed"

\* this step dispatches the completed or error event of the job whose
\* handlers observer o has registered
ReceivesTerminal(o) ==
  /\ ClientDispatch(PageSocket)
  /\ observers[o].listening # 0
  /\ NextEvent.jobId = observers[o].listening
  /\ NextEvent.event \in {"completed", "error"}

\* C21: when the observer is handed the completed or error event of its job
\* it takes the terminal status and unsubscribes: it emits unsubscribe:job
\* for the job and removes its handlers, so that the hub, once it has handled
\* the message, holds no subscription for it.
C21_UnsubscribesOnTerminal ==
  [][\A o \in ObsIds :
       ReceivesTerminal(o) =>
         /\ observers'[o].status \in {"completed", "failed"}
         /\ Emitted # << >>
         /\ Emitted[1] = Message("unsubscribe:job", observers[o].listening)
         /\ observers'[o].listening = 0]_vars

\* ------------------------------------------------------ the timestamps
\* this step applies a progress event to the row of job j
AppliesProgress(j) ==
  \E i \in 1..MaxInFlight :
    /\ Handles(i, {"progress"})
    /\ EventOf(i).jobId = j
    /\ ~JobQueryThrows(jobs, EventOf(i), now)

\* C22: started_at is set at most once: only a progress event applied to the
\* job sets it, the first one applied does, and once it is set no step, of a
\* progress, completed or error event or of a cancel, changes it.
C22_StartedAtSetOnce ==
  [][\A j \in DOMAIN jobs :
       /\ j \in DOMAIN jobs'
       /\ jobs[j].started_at # NULL => jobs'[j].started_at = jobs[j].started_at
       /\ (jobs[j].started_at = NULL /\ jobs'[j].started_at # NULL) => AppliesProgress(j)
       /\ AppliesProgress(j) => jobs'[j].started_at # NULL]_vars

\* the only job had two events handled: the first, a progress event, set
\* started_at, and the second, the completed event, left it
C22_Witness ==
  \E j \in JobIds :
    /\ DOMAIN jobs = {j}
    /\ now = 3
    /\ jobs[j].started_at = Some(1)
    /\ jobs[j].completed_at = Some(2)
    /\ jobs[j].status = "completed"

\* ------------------------------------------- the ledger and the broadcast
\* C23: the relay applies an event to the ledger before it sends the event to
\* the job's room: when job:completed of job J is sent to a subscribed
\* socket, the row of J has status completed.
C23_LedgerBeforeBroadcast ==
  [][\A ev \in PublishedEvents :
       (/\ RelayMessage(ev)
        /\ ev.type = "completed"
        /\ \E s \in Sockets : Subscribed(s, ev.jobId) /\ Delivers(s, ev))
         => jobs'[ev.jobId].status = "completed"]_vars

\* ------------------------------------------------- requests that race
\* C24: a job whose status is completed or failed is never changed to
\* cancelled, also when the cancel request is handled while the job's
\* completed or error event is.
C24_CancelOnlyFromActive ==
  [][\A j \in DOMAIN jobs :
       jobs[j].status \in {"completed", "failed"} => jobs'[j].status # "cancelled"]_vars

\* the descriptors on the queues and in the hands of workers
Descriptors ==
  {queue.ad_analysis[k] : k \in 1..Len(queue.ad_analysis)}
    \cup {queue.emotion_analysis[k] : k \in 1..Len(queue.emotion_analysis)}
    \cup claimed

\* C25: every descriptor on a queue (or taken from one by a worker) carries a
\* job id whose ledger row exists, and so does every worker event the relay
\* is handling: the row is inserted before the descriptor is pushed.
C25_DescriptorHasRow ==
  /\ \A d \in Descriptors :
       /\ d.job_id \in DOMAIN jobs
       /\ jobs[d.job_id].reference_type = d.kind
       /\ jobs[d.job_id].reference_id = d.ref_id
  /\ \A i \in 1..Len(handlers) : handlers[i].ev.jobId \in DOMAIN jobs
  /\ \A r \in ReqIds : reqs[r].pc = "push" => reqs[r].jobId \in DOMAIN jobs

C25_Witness ==
  /\ \E q \in DOMAIN queue : queue[q] # << >> /\ queue[q][1].job_id \in DOMAIN jobs
  /\ \E i \in 1..Len(handlers) :
       /\ handlers[i].ev.jobId \in DOMAIN jobs
       /\ \E d \in claimed : d.job_id = handlers[i].ev.jobId

\* the jobs that reference entity id of the given kind and are not terminal
ActiveJobsOf(kind, id) ==
  {j \in DOMAIN jobs :
     /\ jobs[j].reference_type = kind
     /\ jobs[j].reference_id = id
     /\ jobs[j].status \in {"queued", "processing"}}

\* C26: at most one job in status queued or processing references a given
\* entity, also when two analyze requests for the entity are handled at the
\* same time.
C26_OneActiveJobPerEntity ==
  \A kind \in {"ad", "reaction_video"} :
    \A id \in EntityIds(kind) : Cardinality(ActiveJobsOf(kind, id)) <= 1

\* ------------------------------------------- invocations that overlap
\* the invocations started before invocation i, for the same job, whose
\* ledger query has not taken effect
EarlierPending(i) ==
  {k \in 1..(i - 1) :
     handlers[k].pc = "job" /\ handlers[k].ev.jobId = handlers[i].ev.jobId}

\* C27: the ledger updates of two events received for the same job take
\* effect in the order the relay received them: the query of an invocation
\* never takes effect while an earlier invocation for the same job is still
\* waiting for its own.
C27_UpdatesInOrderReceived ==
  [][\A i \in 1..MaxInFlight :
       Handles(i, {"progress", "completed", "error"}) => EarlierPending(i) = {}]_vars

\* ------------------------------------------------- entities and their jobs
\* the jobs that reference entity id of the given kind
JobsOf(kind, id) ==
  {j \in DOMAIN jobs : jobs[j].reference_type = kind /\ jobs[j].reference_id = id}

\* no request, no cancel and no invocation of handleJobEvent is under way
Quiet ==
  /\ handlers = << >>
  /\ cancelPending = {}
  /\ \A r \in ReqIds : reqs[r].pc \notin {"insert", "entity", "push"}

\* C28: when every job that references an entity is terminal (and nothing
\* is half done), the entity's status is not queued or processing: the
\* analyze route would accept a new request for it.
C28_EntityFreeWhenJobsTerminal ==
  Quiet =>
    \A kind \in {"ad", "reaction_video"} :
      \A id \in EntityIds(kind) :
        (/\ JobsOf(kind, id) # {}
         /\ \A j \in JobsOf(kind, id) : Terminal(jobs[j]))
          => EntityTable(kind)[id].status \notin {"queued", "processing"}

\* ------------------------------------------------ the observer at rest
\* C30: once the observer's status is completed or failed, no event the
\* page's socket dispatches afterwards changes its status or its progress
\* while its job id stays the same.
C30_TerminalObserverIsStable ==
  [][\A o \in ObsIds :
       (/\ observers[o].status \in {"completed", "failed"}
        /\ ClientDispatch(PageSocket)
        /\ observers'[o].jobId = observers[o].jobId)
         => /\ observers'[o].status = observers[o].status
            /\ observers'[o].progress = observers[o].progress]_vars

\* ------------------------------------------ observers on one connection
\* C29: observers that share the page's connection are independent of each
\* other: whatever another observer has done (subscribed, changed its job
\* id, been disposed), once the hub has handled what the page emitted, every
\* event the relay broadcasts for a job that a mounted observer listens to
\* is sent to the page's socket.
C29_SharedObserversIndependent ==
  [][\A ev \in PublishedEvents :
       (/\ RelayMessage(ev)
        /\ Connected(PageSocket)
        /\ toServer[PageSocket] = << >>
        /\ ev.jobId \in Listening)
         => Delivers(PageSocket, ev)]_vars

====
